---- MODULE Spec2Model ----
(***************************************************************************)
(* A model of t3h-static-site-generator's publish run (src/src/pub.js).    *)
(*                                                                         *)
(* One action is one turn of the event loop: the completion of one         *)
(* collaborator call (a t3h-fs-helper read, write or ensureDirCreated, or  *)
(* less.render) together with every promise reaction that runs before the  *)
(* next completion is processed.  process.exit ends the run at once.       *)
(*                                                                         *)
(* Spec is the publish run.  FrontSpec follows one post file through       *)
(* loadPosts' forEach body and md.js's splitJsonAndFile; NameSpec follows   *)
(* the base names of two post files through setPostDateTitleInfo;         *)
(* InitSpec is a run of the init script; TwiceSpec is two publish runs   *)
(* on the same inputs.                                                     *)
(***************************************************************************)
EXTENDS Integers, Sequences, FiniteSets, TLC

\* Bounds of the model.
MaxFiles == 2      \* files a directory read returns (posts, pages, scripts)
MaxLess == 2       \* entries of site.lessFilesToOutput

VARIABLES
    argv,        \* process.argv: [test: BOOLEAN]
    site,        \* the parsed config, as modified by loadConfig
    full,        \* dirObject.full of each tree: role -> resolved path
    cfgRead,     \* t3hfs.read(CONFIG_FILE_NAME)
    dir,         \* t3hfs.ensureDirCreated per <<tree, role>>
    created,     \* the directories created on disk
    load,        \* t3hfs.readFilesInDir of templates, posts, js, content
    templates,   \* what templatesLoaded resolved with
    posts,       \* what postsLoaded resolved with (html per post, dir)
    pages,       \* what renderPugPages resolved with
    cssRead,     \* t3hfs.read of each less file
    lessRender,  \* less.render of each less file
    cssWrite,    \* t3hfs.write of each css file
    write,       \* t3hfs.writeMany of posts, content (pages) and js
    wdir,        \* the directory each role's write was given
    written,     \* files written on disk per role
    wired,       \* lines 162-213 ran: the reactions are attached
    settled,     \* which of writePosts, writeCSS, writeJS have resolved
    complete,    \* times 'Publish complete.' was logged
    scripts,     \* what jsLoaded resolved with
    proc,        \* the node process
    faults,      \* history: the steps that failed in this run
    options,     \* the pretty and compress flags given to pug and less
    postFile,    \* a post file in loadPosts' forEach and what it made of it
    postName,    \* post files' base names and what setPostDateTitleInfo set
    prior,       \* an earlier publish run on the same inputs: what it left
    initRun      \* a run of the init script

\* The state of a publish run.
pubVars == <<argv, site, full, cfgRead, dir, created, load, templates, posts,
             pages, cssRead, lessRender, cssWrite, write, wdir, written, wired,
             settled, complete, scripts, proc, faults, options>>

\* The state the publish run does not touch.
otherVars == <<postFile, postName, prior, initRun>>

vars == <<pubVars, otherVars>>

Trees == {"input", "output"}
Loaders == {"templates", "posts", "js", "content"}
WriteRoles == {"posts", "content", "js"}
OutRoles == {"posts", "content", "css", "js"}
TemplateNames == {"post", "layout"}
AllWrites == {"writePosts", "writeCSS", "writeJS"}

NoPath == <<>>
PathJoin(a, b) == <<a, b>>

\* The config file generateDefaultConfig writes; the user may have removed
\* lessFilesToOutput or changed the number of its entries.
generateDefaultConfig(lessDefined, nLess) ==
    [ baseUrl |-> "https://t3hmun.github.io",
      testDir |-> "./preview",
      outputDir |-> [ dir |-> "./pages",
                      keys |-> <<"content", "js", "css", "posts">>,
                      dirs |-> [content |-> "./", js |-> "js",
                                css |-> "css", posts |-> "posts"] ],
      inputDir |-> [ dir |-> "./input",
                     keys |-> <<"posts", "templates", "css", "js", "content">>,
                     dirs |-> [posts |-> "posts", templates |-> "templates",
                               css |-> "css", js |-> "js",
                               content |-> "content"] ],
      lessFilesToOutput |-> [defined |-> lessDefined, len |-> nLess] ]

ConfigFiles ==
    {generateDefaultConfig(TRUE, n) : n \in 0..MaxLess}
        \cup {generateDefaultConfig(FALSE, 0)}

NoSite == generateDefaultConfig(FALSE, 0)

DirObject(s, tree) == IF tree = "input" THEN s.inputDir ELSE s.outputDir

DirKeys ==
    {<<"input", k>> : k \in {"posts", "templates", "css", "js", "content"}}
        \cup {<<"output", k>> : k \in OutRoles}

LessIdx == 1..MaxLess

DirIdx == DOMAIN NoSite.inputDir.keys \cup DOMAIN NoSite.outputDir.keys

(***************************************************************************)
(* The process.                                                            *)
(***************************************************************************)

\* A variant of errorAndExit that logs and returns.
ErrorAndLog(p, err) == [p EXCEPT !.err = err]

\* errorAndExit: console.log(err); process.exit(1).
errorAndExit(p, err) ==
    [p EXCEPT !.running = FALSE, !.code = 1, !.how = "errorAndExit", !.err = err]

\* highlight's catch: process.exit() with no status, which is status 0.
highlightExit(p) ==
    [p EXCEPT !.running = FALSE, !.code = 0, !.how = "highlight"]

\* A rejection that no reaction handles.  What node does then depends on its
\* version: it warns and goes on, or it ends the process with status 1.
Unhandled(p, crash) ==
    IF crash
    THEN [p EXCEPT !.running = FALSE, !.code = 1, !.how = "unhandledRejection"]
    ELSE [p EXCEPT !.warned = TRUE]

\* A promise whose catch reaction returned resolves.
Settle(s, branch, p) == IF p.running THEN s \cup {branch} ELSE s

\* A join whose reaction runs at every step taken with the three resolved.
JoinEach(before, after, n) == IF after = AllWrites THEN n + 1 ELSE n

\* Promise.all([writePosts, writeCSS, writeJS]).then(log).
Join(before, after, n) ==
    IF after = AllWrites /\ before # AllWrites THEN n + 1 ELSE n

\* No post file or name is followed in a publish run.
NoFile == [pc |-> "none"]
NoName == [pc |-> "none"]
NoPrior == [ran |-> FALSE]
NoInitRun == [pc |-> "none"]

\* publish is called.
PublishInit ==
    /\ argv \in [test : BOOLEAN]
    /\ site = NoSite
    /\ full = [t \in Trees |-> <<>>]
    /\ cfgRead = "pending"
    /\ dir = [k \in DirKeys |-> "idle"]
    /\ created = {}
    /\ load = [l \in Loaders |-> "idle"]
    /\ templates = [loaded |-> FALSE, names |-> {}]
    /\ posts = [loaded |-> FALSE, html |-> <<>>, dir |-> FALSE,
                applied |-> "no", dirAtApply |-> FALSE]
    /\ pages = [rendered |-> FALSE, n |-> 0, saw |-> "none",
                postsDir |-> FALSE]
    /\ cssRead = [i \in LessIdx |-> "idle"]
    /\ lessRender = [i \in LessIdx |-> "idle"]
    /\ cssWrite = [i \in LessIdx |-> "idle"]
    /\ write = [w \in WriteRoles |-> "idle"]
    /\ wdir = [r \in OutRoles |-> NoPath]
    /\ written = [r \in OutRoles |-> 0]
    /\ wired = FALSE
    /\ settled = {}
    /\ complete = 0
    /\ scripts = [loaded |-> FALSE, n |-> 0]
    /\ proc = [running |-> TRUE, code |-> 0, how |-> "", err |-> "",
               warned |-> FALSE]
    /\ faults = {}
    /\ options = [post |-> {}, page |-> {}, less |-> {}]

Init ==
    /\ PublishInit
    /\ postFile = NoFile
    /\ postName = NoName
    /\ prior = NoPrior
    /\ initRun = NoInitRun

(***************************************************************************)
(* loadConfig and resolveAndCreateDirs.                                    *)
(***************************************************************************)

Range(f) == {f[i] : i \in DOMAIN f}

\* A loadConfig whose test mode replaces baseUrl only.
loadConfigKeepOutput(conf, test) ==
    IF test THEN [conf EXCEPT !.baseUrl = "file:///" \o conf.testDir]
            ELSE conf

\* loadConfig's last reaction: test mode replaces baseUrl and outputDir.dir.
loadConfig(conf, test) ==
    IF test
    THEN [conf EXCEPT !.baseUrl = "file:///" \o conf.testDir,
                      !.outputDir.dir = conf.testDir]
    ELSE conf

\* full[key] = path.join(dirObject.dir, dirs[key]) for every key.
ResolveFull(dirObject) ==
    [k \in Range(dirObject.keys) |-> PathJoin(dirObject.dir, dirObject.dirs[k])]

\* A publish that prepares the output tree first.
TreeOrderSwapped == <<"output", "input">>

\* A publish that prepares the input tree only.
TreeOrderInputOnly == <<"input">>

\* publish: resolveAndCreateDirs(site.inputDir), then (site.outputDir).
TreeOrder == <<"input", "output">>

TreeIdx(t) == CHOOSE j \in 1..Len(TreeOrder) : TreeOrder[j] = t

\* A chain that starts every ensureDirCreated at once.
ChainStartAll(keys) == Range(keys)

\* chain = Promise.resolve().then(first link): only the first link starts.
ChainStart(keys) == {keys[1]}

\* chain = chain.then(next link): the link after the i-th.
ChainNext(keys, i) == IF i < Len(keys) THEN {keys[i + 1]} ELSE {}

StartDirs(d, tree, ks) ==
    [k \in DirKeys |->
        IF k[1] = tree /\ k[2] \in ks /\ d[k] = "idle" THEN "pending" ELSE d[k]]

\* t3hfs.read(CONFIG_FILE_NAME) fails: loadConfig's catch.
ConfigReadFails ==
    /\ proc.running /\ cfgRead = "pending"
    /\ cfgRead' = "fail"
    /\ faults' = faults \cup {"config-read"}
    /\ proc' = errorAndExit(proc, "config-read")
    /\ UNCHANGED <<otherVars, options, argv, site, full, dir, created, load,
                   templates, posts, pages, cssRead, lessRender, cssWrite,
                   write, wdir, written, wired, settled, complete, scripts>>

\* The config is read and JSON.parse throws.
ConfigParseFails ==
    /\ proc.running /\ cfgRead = "pending"
    /\ cfgRead' = "ok"
    /\ faults' = faults \cup {"config-parse"}
    /\ proc' = errorAndExit(proc, "config-parse")
    /\ UNCHANGED <<otherVars, options, argv, site, full, dir, created, load,
                   templates, posts, pages, cssRead, lessRender, cssWrite,
                   write, wdir, written, wired, settled, complete, scripts>>

\* The config is read and parsed; publish resolves the first tree and the
\* first link of its chain calls ensureDirCreated.
ConfigLoaded ==
    /\ proc.running /\ cfgRead = "pending"
    /\ \E conf \in ConfigFiles :
          LET s1 == loadConfig(conf, argv.test)
              t == TreeOrder[1]
              obj == DirObject(s1, t)
          IN  /\ site' = s1
              /\ full' = [full EXCEPT ![t] = ResolveFull(obj)]
              /\ dir' = StartDirs(dir, t, ChainStart(obj.keys))
    /\ cfgRead' = "ok"
    /\ UNCHANGED <<otherVars, options, argv, created, load, templates, posts,
                   pages, cssRead, lessRender, cssWrite, write, wdir, written,
                   wired, settled, complete, scripts, proc, faults>>

\* A page branch started by publish itself.
PageBranchOnLaunch == "launch"

\* The page branch is a reaction to postsLoaded (line 167).
PageBranchOn == "postsLoaded"

\* The block of publish that starts the loaders and attaches the reactions
\* (lines 149-213), after process state p1 and fault history f1.  When
\* site.lessFilesToOutput is undefined, line 156 throws after loadTemplates
\* and loadPosts were called, and nothing handles the rejection.
Launch(p1, f1) ==
    LET less == site.lessFilesToOutput IN
    IF less.defined
    THEN /\ load' = [load EXCEPT !.templates = "pending", !.posts = "pending",
                                 !.js = "pending",
                                 !.content = IF PageBranchOn = "launch"
                                             THEN "pending" ELSE @]
         /\ cssRead' = [i \in LessIdx |->
                           IF i <= less.len THEN "pending" ELSE cssRead[i]]
         /\ wired' = TRUE
         \* Promise.all([]) of no stylesheet resolves in this same turn.
         /\ settled' = IF less.len = 0 THEN settled \cup {"writeCSS"}
                                       ELSE settled
         /\ complete' = complete
         /\ proc' = p1
         /\ faults' = f1
    ELSE /\ load' = [load EXCEPT !.templates = "pending", !.posts = "pending"]
         /\ faults' = f1 \cup {"launch"}
         /\ \E crash \in BOOLEAN : proc' = Unhandled(p1, crash)
         /\ UNCHANGED <<cssRead, wired, settled, complete>>

\* What settling the i-th ensureDirCreated of tree t leaves behind: the link's
\* catch calls errorAndExit on failure.
DirSettled(t, i, ok) ==
    LET keys == DirObject(site, t).keys
        k == <<t, keys[i]>>
    IN  [ proc |-> IF ok THEN proc ELSE errorAndExit(proc, "mkdir"),
          faults |-> IF ok THEN faults ELSE faults \cup {"mkdir"},
          dir |-> [dir EXCEPT ![k] = IF ok THEN "ok" ELSE "fail"],
          created |-> IF ok THEN created \cup {full[t][keys[i]]} ELSE created ]

DirPending(t, i) ==
    /\ proc.running
    /\ t \in Range(TreeOrder)
    /\ i \in DOMAIN DirObject(site, t).keys
    /\ dir[<<t, DirObject(site, t).keys[i]>>] = "pending"

\* An ensureDirCreated settles and the chain's next link starts; a failure
\* ends the process in the link's catch.
CreateDirThenNext(t, i) ==
    /\ DirPending(t, i)
    /\ i < Len(DirObject(site, t).keys)
    /\ \E ok \in BOOLEAN :
          LET r == DirSettled(t, i, ok) IN
          /\ proc' = r.proc
          /\ faults' = r.faults
          /\ created' = r.created
          /\ dir' = IF r.proc.running
                    THEN StartDirs(r.dir, t, ChainNext(DirObject(site, t).keys, i))
                    ELSE r.dir
    /\ UNCHANGED <<otherVars, options, argv, site, full, cfgRead, load,
                   templates, posts, pages, cssRead, lessRender, cssWrite,
                   write, wdir, written, wired, settled, complete, scripts>>

\* The last ensureDirCreated of a tree settles; publish resolves the next
\* tree and starts its chain.
CreateDirThenTree(t, i) ==
    /\ DirPending(t, i)
    /\ i = Len(DirObject(site, t).keys)
    /\ TreeIdx(t) < Len(TreeOrder)
    /\ \E ok \in BOOLEAN :
          LET r == DirSettled(t, i, ok)
              t2 == TreeOrder[TreeIdx(t) + 1]
              obj2 == DirObject(site, t2)
          IN  /\ proc' = r.proc
              /\ faults' = r.faults
              /\ created' = r.created
              /\ IF r.proc.running
                 THEN /\ full' = [full EXCEPT ![t2] = ResolveFull(obj2)]
                      /\ dir' = StartDirs(r.dir, t2, ChainStart(obj2.keys))
                 ELSE /\ full' = full
                      /\ dir' = r.dir
    /\ UNCHANGED <<otherVars, options, argv, site, cfgRead, load, templates,
                   posts, pages, cssRead, lessRender, cssWrite, write, wdir,
                   written, wired, settled, complete, scripts>>

\* The last ensureDirCreated of the last tree settles; publish starts the
\* loaders and the stylesheet renders.
CreateDirThenLaunch(t, i) ==
    /\ DirPending(t, i)
    /\ i = Len(DirObject(site, t).keys)
    /\ TreeIdx(t) = Len(TreeOrder)
    /\ \E ok \in BOOLEAN :
          LET r == DirSettled(t, i, ok) IN
          /\ created' = r.created
          /\ dir' = r.dir
          /\ IF r.proc.running
             THEN Launch(r.proc, r.faults)
             ELSE /\ proc' = r.proc
                  /\ faults' = r.faults
                  /\ UNCHANGED <<load, cssRead, wired, settled, complete>>
    /\ UNCHANGED <<otherVars, options, argv, site, full, cfgRead, templates,
                   posts, pages, lessRender, cssWrite, write, wdir, written,
                   scripts>>

(***************************************************************************)
(* Rejections.                                                             *)
(***************************************************************************)

\* A rejection with error e reaches a catch of publish, which calls
\* errorAndExit; were that to return, the promises in branches would resolve.
\* f is the fault history before e.
FatalFrom(f, e, branches) ==
    LET p2 == errorAndExit(proc, e)
        s2 == IF p2.running THEN settled \cup branches ELSE settled
    IN  /\ proc' = p2
        /\ faults' = f \cup {e}
        /\ settled' = s2
        /\ complete' = Join(settled, s2, complete)

Fatal(e, branches) == FatalFrom(faults, e, branches)

\* A loader rejects with error e.  The catches exist only once lines 162-213
\* ran; otherwise nothing handles the rejection.
Reject(e, branches) ==
    IF wired
    THEN Fatal(e, branches)
    ELSE /\ faults' = faults \cup {e}
         /\ \E crash \in BOOLEAN : proc' = Unhandled(proc, crash)
         /\ UNCHANGED <<settled, complete>>

\* A resolution of writeOutDirs from the link directories.
WriteOutDirUnresolved(role) == PathJoin(".", site.outputDir.dirs[role])

\* writeOutDirs[role] = site.outputDir.full[role].
WriteOutDir(role) ==
    IF role \in DOMAIN full["output"] THEN full["output"][role] ELSE NoPath

(***************************************************************************)
(* Templates and posts.                                                    *)
(***************************************************************************)

\* An applyPostTemplates that resolves with the posts it got through.
applyPostTemplatesPartial(html, names, k) ==
    [ok |-> TRUE,
     html |-> [j \in 1..Len(html) |->
                  IF "post" \in names /\ (k = 0 \/ j < k) THEN "tpl"
                                                          ELSE html[j]]]

\* applyPostTemplates on posts with the given html stages; k is the post at
\* which the template function throws (0: none).  With no template named
\* 'post', postTemplate.func throws a TypeError at the first post.
applyPostTemplates(html, names, k) ==
    IF "post" \notin names
    THEN [ok |-> Len(html) = 0, html |-> html]
    ELSE [ok |-> k = 0,
          html |-> [j \in 1..Len(html) |->
                       IF k = 0 \/ j < k THEN "tpl" ELSE html[j]]]

\* A loadTemplates that skips the files pug.compile throws for.
loadTemplatesSkipBad(names, bad) == [ok |-> TRUE, names |-> names \ bad]

\* loadTemplates' reaction on the files read: names are the files' names, bad
\* those pug.compile throws for.  One throw rejects the whole load.
loadTemplates(names, bad) ==
    IF bad # {} THEN [ok |-> FALSE, names |-> {}]
                ELSE [ok |-> TRUE, names |-> names]

\* A stylesheet rendering that always compresses.
CompressAlways(test) == TRUE

\* renderLessToCss(path, !test, debug): compress unless in test mode.
Compress(test) == ~test

\* pretty: test, as given to the post template and to pug.render.
Pretty(test) == test

\* A join that lets the post template be applied as soon as the posts load.
PostTemplateReadyPostsOnly(postsOk, templatesOk) == postsOk

\* Promise.all([postsLoaded, templatesLoaded]): fulfilled once both are.
PostTemplateReady(postsOk, templatesOk) == postsOk /\ templatesOk

\* A page branch's reaction that leaves posts.dir unassigned.
PageReactionNoDir(ps) == ps

\* The page branch's reaction on postsLoaded assigns posts.dir before it calls
\* renderPugPages.
PageReaction(ps) == [ps EXCEPT !.dir = TRUE]

\* postTemplateApplied and writePosts (lines 162-164 and 182-189) for the
\* posts ps and the template names; f is the fault history so far.  applied
\* and dirAtApply record the call of applyPostTemplates and the posts.dir it
\* was given.
PostBranch(ps, names, f) ==
    \E k \in 0..Len(ps.html) :
        LET r == applyPostTemplates(ps.html, names, k) IN
        /\ posts' = [ps EXCEPT !.html = r.html,
                               !.applied = IF r.ok THEN "ok" ELSE "fail",
                               !.dirAtApply = ps.dir]
        /\ options' = [options EXCEPT
                          !.post = IF "post" \in names /\ Len(ps.html) > 0
                                   THEN @ \cup {Pretty(argv.test)} ELSE @]
        /\ IF r.ok
           THEN /\ write' = [write EXCEPT !.posts = "pending"]
                /\ wdir' = [wdir EXCEPT !.posts = WriteOutDir("posts")]
                /\ faults' = f
                /\ UNCHANGED <<proc, settled, complete>>
           ELSE /\ FatalFrom(f, "apply", {"writePosts"})
                /\ UNCHANGED <<write, wdir>>

\* readFilesInDir of the templates directory fails.
TemplatesReadFails ==
    /\ proc.running /\ load.templates = "pending"
    /\ load' = [load EXCEPT !.templates = "fail"]
    /\ Reject("templates-read", {"writePosts"})
    /\ UNCHANGED <<otherVars, options, argv, site, full, cfgRead, dir,
                   created, templates, posts, pages, cssRead, lessRender,
                   cssWrite, write, wdir, written, wired, scripts>>

\* The template files are read and compiled.  If every one compiles and the
\* posts are loaded, the post template is applied and the post-write starts;
\* if pug.compile throws, templatesLoaded rejects and writePosts' catch runs.
TemplatesRead ==
    /\ proc.running /\ load.templates = "pending"
    /\ load' = [load EXCEPT !.templates = "ok"]
    /\ \E names \in SUBSET TemplateNames, bad \in SUBSET TemplateNames :
          /\ bad \subseteq names
          /\ LET r == loadTemplates(names, bad)
                 f1 == IF bad = {} THEN faults
                                   ELSE faults \cup {"template-compile"}
             IN  IF r.ok
                 THEN /\ templates' = [loaded |-> TRUE, names |-> r.names]
                      /\ IF wired /\ PostTemplateReady(posts.loaded, TRUE)
                         THEN PostBranch(posts, r.names, f1)
                         ELSE /\ faults' = f1
                              /\ UNCHANGED <<posts, write, wdir, proc, settled,
                                             complete, options>>
                 ELSE /\ Reject("template-compile", {"writePosts"})
                      /\ UNCHANGED <<templates, posts, write, wdir, options>>
    /\ UNCHANGED <<otherVars, argv, site, full, cfgRead, dir,
                   created, pages, cssRead, lessRender, cssWrite, written,
                   wired, scripts>>

\* readFilesInDir of the posts directory fails: the page branch's catch and
\* writePosts' catch both call errorAndExit.
PostsReadFails ==
    /\ proc.running /\ load.posts = "pending"
    /\ load' = [load EXCEPT !.posts = "fail"]
    /\ Reject("posts-read", {"writePosts"})
    /\ UNCHANGED <<otherVars, options, argv, site, full, cfgRead, dir,
                   created, templates, posts, pages, cssRead, lessRender,
                   cssWrite, write, wdir, written, wired, scripts>>

\* extractFrontmatter or md.convert throws for one of the post files.
PostParseFails ==
    /\ proc.running /\ load.posts = "pending"
    /\ load' = [load EXCEPT !.posts = "ok"]
    /\ \E e \in {"frontmatter", "markdown"} : Reject(e, {"writePosts"})
    /\ UNCHANGED <<otherVars, options, argv, site, full, cfgRead, dir,
                   created, templates, posts, pages, cssRead, lessRender,
                   cssWrite, write, wdir, written, wired, scripts>>

\* highlightJs.highlight throws inside md.convert: the hook logs and calls
\* process.exit().
HighlightFails ==
    /\ proc.running /\ load.posts = "pending"
    /\ load' = [load EXCEPT !.posts = "ok"]
    /\ faults' = faults \cup {"highlight"}
    /\ proc' = highlightExit(proc)
    /\ UNCHANGED <<otherVars, options, argv, site, full, cfgRead, dir,
                   created, templates, posts, pages, cssRead, lessRender,
                   cssWrite, write, wdir, written, wired, settled, complete,
                   scripts>>

\* The posts load.  postsLoaded's reactions run in the order they were
\* queued: Promise.all's element reaction (line 162), which only fulfils the
\* joined promise, then the page branch's (line 167), which sets posts.dir and
\* calls renderPugPages (the content directory's read starts); the joined
\* promise's reaction, applyPostTemplates, is queued by the first and so runs
\* after the second.  If the templates are not loaded yet it runs later.
PostsLoaded ==
    /\ proc.running /\ load.posts = "pending"
    /\ \E n \in 0..MaxFiles :
          LET loaded == [loaded |-> TRUE, html |-> [j \in 1..n |-> "md"],
                         dir |-> FALSE, applied |-> "no", dirAtApply |-> FALSE]
              paged == wired /\ PageBranchOn = "postsLoaded"
              ps == IF paged THEN PageReaction(loaded) ELSE loaded
          IN  /\ pages' = IF paged THEN [pages EXCEPT !.postsDir = ps.dir]
                                   ELSE pages
              /\ load' = [load EXCEPT !.posts = "ok",
                                      !.content = IF paged THEN "pending" ELSE @]
              /\ IF wired /\ PostTemplateReady(TRUE, templates.loaded)
                 THEN PostBranch(ps, templates.names, faults)
                 ELSE /\ posts' = ps
                      /\ UNCHANGED <<write, wdir, proc, faults, settled,
                                     complete, options>>
    /\ UNCHANGED <<otherVars, argv, site, full, cfgRead, dir,
                   created, templates, cssRead, lessRender, cssWrite, written,
                   wired, scripts>>

(***************************************************************************)
(* Pages.                                                                  *)
(***************************************************************************)

\* The stage of the html field of the posts a page template is given.
HtmlStage(html) ==
    IF Len(html) = 0 THEN "none"
    ELSE IF \A j \in 1..Len(html) : html[j] = "md" THEN "md"
    ELSE IF \A j \in 1..Len(html) : html[j] = "tpl" THEN "tpl"
    ELSE "mixed"

\* readFilesInDir of the content directory fails in renderPugPages.
ContentReadFails ==
    /\ proc.running /\ load.content = "pending"
    /\ load' = [load EXCEPT !.content = "fail"]
    /\ Fatal("content-read", {})
    /\ UNCHANGED <<otherVars, options, argv, site, full, cfgRead, dir,
                   created, templates, posts, pages, cssRead, lessRender,
                   cssWrite, write, wdir, written, wired, scripts>>

\* A renderPugPages that leaves out the page pug.render throws for.
renderPugPagesSkipBad(n, k) == [ok |-> TRUE, n |-> IF k = 0 THEN n ELSE n - 1]

\* renderPugPages' reaction on the n files read; k is the page pug.render
\* throws for (0: none).  One throw rejects Promise.all(renders).
renderPugPages(n, k) == [ok |-> k = 0, n |-> IF k = 0 THEN n ELSE 0]

\* The page branch from the content directory's read on: the pages render
\* with the posts as they are now and the page-write starts, or the branch's
\* catch runs.
PageBranch(n, k) ==
    LET r == renderPugPages(n, k)
        f1 == IF k = 0 THEN faults ELSE faults \cup {"page-render"}
    IN  /\ options' = [options EXCEPT
                          !.page = IF n > 0 THEN @ \cup {Pretty(argv.test)}
                                            ELSE @]
        /\ IF r.ok
           THEN /\ pages' = [pages EXCEPT !.rendered = TRUE, !.n = r.n,
                                          !.saw = HtmlStage(posts.html)]
                /\ write' = [write EXCEPT !.content = "pending"]
                /\ wdir' = [wdir EXCEPT !.content = WriteOutDir("content")]
                /\ faults' = f1
                /\ UNCHANGED <<proc, settled, complete>>
           ELSE /\ Fatal("page-render", {})
                /\ UNCHANGED <<pages, write, wdir>>

\* pug.render throws for one of the pages: its promise rejects, Promise.all
\* rejects and the page branch's catch runs.
PageRenderFails ==
    /\ proc.running /\ load.content = "pending"
    /\ load' = [load EXCEPT !.content = "ok"]
    /\ \E n \in 1..MaxFiles : \E k \in 1..n : PageBranch(n, k)
    /\ UNCHANGED <<otherVars, argv, site, full, cfgRead, dir, created,
                   templates, posts, cssRead, lessRender, cssWrite, written,
                   wired, scripts>>

\* Every page renders and the page-write starts.
PagesRendered ==
    /\ proc.running /\ load.content = "pending"
    /\ load' = [load EXCEPT !.content = "ok"]
    /\ \E n \in 0..MaxFiles : PageBranch(n, 0)
    /\ UNCHANGED <<otherVars, argv, site, full, cfgRead, dir, created,
                   templates, posts, cssRead, lessRender, cssWrite, written,
                   wired, scripts>>

(***************************************************************************)
(* Stylesheets and scripts.                                                *)
(***************************************************************************)

NLess == site.lessFilesToOutput.len

\* t3hfs.read of the i-th less file settles; renderLessToCss calls less.render.
CssReadDone(i) ==
    /\ proc.running /\ cssRead[i] = "pending"
    /\ \/ /\ cssRead' = [cssRead EXCEPT ![i] = "ok"]
          /\ lessRender' = [lessRender EXCEPT ![i] = "pending"]
          /\ options' = [options EXCEPT !.less = @ \cup {Compress(argv.test)}]
          /\ UNCHANGED <<proc, faults, settled, complete>>
       \/ /\ cssRead' = [cssRead EXCEPT ![i] = "fail"]
          /\ Fatal("css-read", {"writeCSS"})
          /\ UNCHANGED <<lessRender, options>>
    /\ UNCHANGED <<otherVars, argv, site, full, cfgRead, dir,
                   created, load, templates, posts, pages, cssWrite, write,
                   wdir, written, wired, scripts>>

\* less.render of the i-th file settles; once every render has resolved,
\* writeCSS starts one t3hfs.write per stylesheet.
LessRenderDone(i) ==
    /\ proc.running /\ lessRender[i] = "pending"
    /\ \/ LET r1 == [lessRender EXCEPT ![i] = "ok"] IN
          /\ lessRender' = r1
          /\ IF \A j \in 1..NLess : r1[j] = "ok"
             THEN /\ cssWrite' = [j \in LessIdx |->
                                     IF j <= NLess THEN "pending" ELSE cssWrite[j]]
                  /\ wdir' = [wdir EXCEPT !.css = WriteOutDir("css")]
             ELSE UNCHANGED <<cssWrite, wdir>>
          /\ UNCHANGED <<proc, faults, settled, complete>>
       \/ /\ lessRender' = [lessRender EXCEPT ![i] = "fail"]
          /\ Fatal("less", {"writeCSS"})
          /\ UNCHANGED <<cssWrite, wdir>>
    /\ UNCHANGED <<otherVars, options, argv, site, full, cfgRead, dir,
                   created, load, templates, posts, pages, cssRead, write,
                   written, wired, scripts>>

\* t3hfs.write of the i-th css file settles; writeCSS resolves with the last.
CssWriteDone(i) ==
    /\ proc.running /\ cssWrite[i] = "pending"
    /\ \/ LET w1 == [cssWrite EXCEPT ![i] = "ok"]
              s2 == IF \A j \in 1..NLess : w1[j] = "ok"
                    THEN settled \cup {"writeCSS"} ELSE settled
          IN  /\ cssWrite' = w1
              /\ written' = [written EXCEPT !.css = @ + 1]
              /\ settled' = s2
              /\ complete' = Join(settled, s2, complete)
              /\ UNCHANGED <<proc, faults>>
       \/ /\ cssWrite' = [cssWrite EXCEPT ![i] = "fail"]
          /\ Fatal("css-write", {"writeCSS"})
          /\ UNCHANGED written
    /\ UNCHANGED <<otherVars, options, argv, site, full, cfgRead, dir,
                   created, load, templates, posts, pages, cssRead,
                   lessRender, write, wdir, wired, scripts>>

\* readFilesInDir of the js directory settles; writeJS starts the script-write.
JsReadDone ==
    /\ proc.running /\ load.js = "pending"
    /\ \/ /\ load' = [load EXCEPT !.js = "ok"]
          /\ \E n \in 0..MaxFiles : scripts' = [loaded |-> TRUE, n |-> n]
          /\ write' = [write EXCEPT !.js = "pending"]
          /\ wdir' = [wdir EXCEPT !.js = WriteOutDir("js")]
          /\ UNCHANGED <<proc, faults, settled, complete>>
       \/ /\ load' = [load EXCEPT !.js = "fail"]
          /\ Fatal("js-read", {"writeJS"})
          /\ UNCHANGED <<scripts, write, wdir>>
    /\ UNCHANGED <<otherVars, options, argv, site, full, cfgRead, dir,
                   created, templates, posts, pages, cssRead, lessRender,
                   cssWrite, written, wired>>

(***************************************************************************)
(* writeMany, the final join and the end of the process.                   *)
(***************************************************************************)

\* The files a role's writeMany was given.
WriteCount(w) ==
    IF w = "posts" THEN Len(posts.html)
    ELSE IF w = "content" THEN pages.n
    ELSE scripts.n

\* The promise of the final join that a role's writeMany resolves: the page
\* branch's promise is not one of them.
WriteBranch(w) ==
    IF w = "posts" THEN {"writePosts"}
    ELSE IF w = "js" THEN {"writeJS"}
    ELSE {}

\* t3hfs.writeMany of a role resolves: every file is on disk.
WriteManyDone(w) ==
    /\ proc.running /\ write[w] = "pending"
    /\ write' = [write EXCEPT ![w] = "ok"]
    /\ written' = [written EXCEPT ![w] = WriteCount(w)]
    /\ settled' = settled \cup WriteBranch(w)
    /\ complete' = Join(settled, settled', complete)
    /\ UNCHANGED <<otherVars, options, argv, site, full, cfgRead, dir,
                   created, load, templates, posts, pages, cssRead,
                   lessRender, cssWrite, wdir, wired, scripts, proc, faults>>

\* t3hfs.writeMany of a role rejects: some of its files may be on disk.
WriteManyFails(w) ==
    /\ proc.running /\ write[w] = "pending"
    /\ write' = [write EXCEPT ![w] = "fail"]
    /\ \E m \in 0..WriteCount(w) :
          /\ m < WriteCount(w) \/ m = 0
          /\ written' = [written EXCEPT ![w] = m]
    /\ Fatal(w \o "-write", WriteBranch(w))
    /\ UNCHANGED <<otherVars, options, argv, site, full, cfgRead, dir,
                   created, load, templates, posts, pages, cssRead,
                   lessRender, cssWrite, wdir, wired, scripts>>

Pending ==
    \/ cfgRead = "pending"
    \/ \E k \in DirKeys : dir[k] = "pending"
    \/ \E l \in Loaders : load[l] = "pending"
    \/ \E i \in LessIdx : "pending" \in {cssRead[i], lessRender[i], cssWrite[i]}
    \/ \E w \in WriteRoles : write[w] = "pending"

\* Nothing is left on the event loop: node exits with status 0.
Drain ==
    /\ proc.running /\ ~Pending
    /\ proc' = [proc EXCEPT !.running = FALSE, !.code = 0, !.how = "drained"]
    /\ UNCHANGED <<otherVars, options, argv, site, full, cfgRead, dir,
                   created, load, templates, posts, pages, cssRead,
                   lessRender, cssWrite, write, wdir, written, wired, settled,
                   complete, scripts, faults>>

Next ==
    \/ ConfigReadFails
    \/ ConfigParseFails
    \/ ConfigLoaded
    \/ \E t \in Trees, i \in DirIdx : CreateDirThenNext(t, i)
    \/ \E t \in Trees, i \in DirIdx : CreateDirThenTree(t, i)
    \/ \E t \in Trees, i \in DirIdx : CreateDirThenLaunch(t, i)
    \/ TemplatesReadFails
    \/ TemplatesRead
    \/ PostsReadFails
    \/ PostParseFails
    \/ HighlightFails
    \/ PostsLoaded
    \/ ContentReadFails
    \/ PageRenderFails
    \/ PagesRendered
    \/ \E i \in LessIdx : CssReadDone(i)
    \/ \E i \in LessIdx : LessRenderDone(i)
    \/ \E i \in LessIdx : CssWriteDone(i)
    \/ JsReadDone
    \/ \E w \in WriteRoles : WriteManyDone(w)
    \/ \E w \in WriteRoles : WriteManyFails(w)
    \/ Drain

Spec == Init /\ [][Next]_vars

(***************************************************************************)
(* Two publish runs on the same inputs.  After a run that ended with every *)
(* output written, prior keeps what the run read and what it wrote, and    *)
(* publish is called again; the second run's collaborators return what the *)
(* first run's returned and do not fail.                                   *)
(***************************************************************************)

\* What a run read: the config, the templates' names and the numbers of
\* posts, pages and scripts.
Inputs ==
    [ test |-> argv.test, site |-> site, names |-> templates.names,
      posts |-> Len(posts.html), pages |-> pages.n, scripts |-> scripts.n ]

\* What a run wrote: the files per output role, the options they were rendered
\* with, the html of the written posts and the html of the posts the pages
\* were rendered from.
Outputs ==
    [ written |-> written, options |-> options,
      posts |-> HtmlStage(posts.html), pages |-> pages.saw ]

\* The first run is over with everything written; publish is called again
\* with the same arguments.
RunAgain ==
    /\ ~prior.ran
    /\ ~proc.running /\ proc.how = "drained" /\ faults = {} /\ complete = 1
    /\ prior' = [ran |-> TRUE, inputs |-> Inputs, outputs |-> Outputs]
    /\ argv' = argv
    /\ site' = NoSite
    /\ full' = [t \in Trees |-> <<>>]
    /\ cfgRead' = "pending"
    /\ dir' = [k \in DirKeys |-> "idle"]
    /\ created' = {}
    /\ load' = [l \in Loaders |-> "idle"]
    /\ templates' = [loaded |-> FALSE, names |-> {}]
    /\ posts' = [loaded |-> FALSE, html |-> <<>>, dir |-> FALSE,
                 applied |-> "no", dirAtApply |-> FALSE]
    /\ pages' = [rendered |-> FALSE, n |-> 0, saw |-> "none",
                 postsDir |-> FALSE]
    /\ cssRead' = [i \in LessIdx |-> "idle"]
    /\ lessRender' = [i \in LessIdx |-> "idle"]
    /\ cssWrite' = [i \in LessIdx |-> "idle"]
    /\ write' = [w \in WriteRoles |-> "idle"]
    /\ wdir' = [r \in OutRoles |-> NoPath]
    /\ written' = [r \in OutRoles |-> 0]
    /\ wired' = FALSE
    /\ settled' = {}
    /\ complete' = 0
    /\ scripts' = [loaded |-> FALSE, n |-> 0]
    /\ proc' = [running |-> TRUE, code |-> 0, how |-> "", err |-> "",
                warned |-> FALSE]
    /\ faults' = {}
    /\ options' = [post |-> {}, page |-> {}, less |-> {}]
    /\ UNCHANGED <<postFile, postName, initRun>>

\* The collaborators of the second run return what they returned to the
\* first: nothing fails, and what has been read is what the first run read.
SameInputs ==
    prior.ran =>
        /\ faults = {}
        /\ cfgRead = "ok" => site = prior.inputs.site
        /\ templates.loaded => templates.names = prior.inputs.names
        /\ posts.loaded => Len(posts.html) = prior.inputs.posts
        /\ pages.rendered => pages.n = prior.inputs.pages
        /\ scripts.loaded => scripts.n = prior.inputs.scripts

TwiceNext ==
    \/ Next /\ SameInputs'
    \/ RunAgain

TwiceSpec == Init /\ [][TwiceNext]_vars

(***************************************************************************)
(* Front matter (src/src/md.js splitJsonAndFile, called by loadPosts for   *)
(* each post file).  A text is a sequence of characters; the characters    *)
(* followed are the ones the splitter and JSON distinguish.                *)
(***************************************************************************)

MaxText == 5       \* characters of a post file drawn freely
MaxStr == 2        \* characters of a string value of the metadata
MaxBody == 2       \* characters of the body that follows serialised metadata

LB == "{"
RB == "}"
BS == "\\"
QT == "\""
CL == ":"
Chars == {LB, RB, BS, QT, CL, "a"}

SeqsUpTo(S, n) == UNION {[1..k -> S] : k \in 0..n}

\* An index that counts a negative argument as 0.
ClampZero(i, n) == IF i < 0 THEN 0 ELSE IF i > n THEN n ELSE i

\* An argument of slice as an index into a text of n characters: a negative
\* one counts from the end.
Clamp(i, n) ==
    IF i < 0 THEN (IF n + i < 0 THEN 0 ELSE n + i)
    ELSE IF i > n THEN n ELSE i

\* String.prototype.slice(b, e) and slice(b) on a text, 0-based, e exclusive.
Slice(text, b, e) ==
    SubSeq(text, Clamp(b, Len(text)) + 1, Clamp(e, Len(text)))
SliceFrom(text, b) == SubSeq(text, Clamp(b, Len(text)) + 1, Len(text))

\* JSON values: a string or an object of at most one member (the characters
\* followed have no comma).
NoValue == [t |-> "none", s |-> <<>>, kv |-> <<>>]
Str(s) == [t |-> "str", s |-> s, kv |-> <<>>]
Obj(kv) == [t |-> "obj", s |-> <<>>, kv |-> kv]
ParseFail == [ok |-> FALSE, v |-> NoValue, next |-> 0]

\* The characters of a JSON string from index i, after its opening quote:
\* up to the closing quote, with the escapes \\ and \" decoded; any other
\* escape is a syntax error.
RECURSIVE ParseChars(_, _, _)
ParseChars(text, i, acc) ==
    IF i > Len(text) THEN ParseFail
    ELSE IF text[i] = QT THEN [ok |-> TRUE, v |-> Str(acc), next |-> i + 1]
    ELSE IF text[i] = BS
         THEN IF i + 1 <= Len(text) /\ text[i + 1] \in {BS, QT}
              THEN ParseChars(text, i + 2, Append(acc, text[i + 1]))
              ELSE ParseFail
    ELSE ParseChars(text, i + 1, Append(acc, text[i]))

ParseString(text, i) ==
    IF i <= Len(text) /\ text[i] = QT THEN ParseChars(text, i + 1, <<>>)
                                      ELSE ParseFail

\* A JSON value from index i: [ok, v, next].
RECURSIVE ParseValue(_, _)
ParseValue(text, i) ==
    IF i > Len(text) THEN ParseFail
    ELSE IF text[i] = QT THEN ParseString(text, i)
    ELSE IF text[i] = LB
         THEN IF i + 1 <= Len(text) /\ text[i + 1] = RB
              THEN [ok |-> TRUE, v |-> Obj(<<>>), next |-> i + 2]
              ELSE LET k == ParseString(text, i + 1) IN
                   IF ~k.ok \/ k.next > Len(text) THEN ParseFail
                   ELSE IF text[k.next] # CL THEN ParseFail
                   ELSE LET m == ParseValue(text, k.next + 1) IN
                        IF ~m.ok \/ m.next > Len(text) THEN ParseFail
                        ELSE IF text[m.next] # RB THEN ParseFail
                        ELSE [ok |-> TRUE, v |-> Obj(<<<<k.v.s, m.v>>>>),
                              next |-> m.next + 1]
    ELSE ParseFail

\* A JSON.parse that accepts every text.
JsonParseAny(text) == [ok |-> TRUE, v |-> Obj(<<>>)]

\* JSON.parse(text): the value, or a SyntaxError (ok FALSE).
JsonParse(text) ==
    LET r == ParseValue(text, 1) IN
    IF r.ok /\ r.next = Len(text) + 1 THEN [ok |-> TRUE, v |-> r.v]
                                      ELSE [ok |-> FALSE, v |-> NoValue]

RECURSIVE Escape(_)
Escape(s) ==
    IF s = <<>> THEN <<>>
    ELSE (IF Head(s) \in {BS, QT} THEN <<BS, Head(s)>> ELSE <<Head(s)>>)
         \o Escape(Tail(s))

Quote(s) == <<QT>> \o Escape(s) \o <<QT>>

\* JSON.stringify(v), without indentation.
RECURSIVE JsonStringify(_)
JsonStringify(v) ==
    IF v.t = "str" THEN Quote(v.s)
    ELSE IF v.kv = <<>> THEN <<LB, RB>>
    ELSE <<LB>> \o Quote(v.kv[1][1]) \o <<CL>> \o JsonStringify(v.kv[1][2])
         \o <<RB>>

\* A test that counts every brace.
AnyBrace(current, prev, brace) == current = brace

\* current == brace && prev != '\\' (lines 62-63).
Unescaped(current, prev, brace) == current = brace /\ prev # BS

\* The for loop of lines 60-69 from index i (0-based): end, or found FALSE
\* when the loop runs off the text and end stays undefined.
RECURSIVE ScanBraces(_, _, _, _, _)
ScanBraces(fileContents, i, prev, open, close) ==
    IF ~(i < Len(fileContents)) THEN [found |-> FALSE, end |-> 0]
    ELSE LET current == fileContents[i + 1]
             o == IF Unescaped(current, prev, LB) THEN open + 1 ELSE open
             c == IF Unescaped(current, prev, RB) THEN close + 1 ELSE close
         IN  IF o = c THEN [found |-> TRUE, end |-> i]
                      ELSE ScanBraces(fileContents, i + 1, current, o, c)

\* A slice index that keeps the closing brace in the body.
AtEnd(scan) == IF scan.found THEN scan.end ELSE 0

\* end + 1 as a slice index (lines 71-72); undefined + 1 is NaN, which slice
\* takes as 0.
AfterEnd(scan) == IF scan.found THEN scan.end + 1 ELSE 0

\* splitJsonAndFile: the locals end, data and front, and the outcome: the
\* object returned, or threw when JSON.parse(front) throws.
splitJsonAndFile(fileContents) ==
    LET scan == ScanBraces(fileContents, 0, "", 0, 0)
        data == SliceFrom(fileContents, AfterEnd(scan))
        front == Slice(fileContents, 0, AfterEnd(scan))
        json == JsonParse(front)
    IN  [scan |-> scan, data |-> data, front |-> front,
         threw |-> ~json.ok,
         file |-> IF json.ok THEN data ELSE <<>>,
         json |-> json.v]

\* file.data.startsWith('{')
StartsWithBrace(data) == Len(data) > 0 /\ data[1] = LB

NoSplit ==
    [scan |-> [found |-> FALSE, end |-> 0], data |-> <<>>, front |-> <<>>,
     threw |-> FALSE, file |-> <<>>, json |-> NoValue]

\* The body of loadPosts' forEach up to line 454 for one file: the post
\* object and the markdown, or rejected when extractFrontmatter throws (the
\* reaction throws and postsLoaded rejects).
loadPostFile(data) ==
    IF StartsWithBrace(data)
    THEN LET res == splitJsonAndFile(data) IN
         [res |-> res, rejected |-> res.threw, pushed |-> ~res.threw,
          post |-> res.json, mdContent |-> res.file]
    ELSE [res |-> NoSplit, rejected |-> FALSE, pushed |-> TRUE,
          post |-> Obj(<<>>), mdContent |-> data]

\* The post files followed: every text of up to MaxText characters, and the
\* serialised metadata objects followed by a body that does not start with
\* a brace.
KeyA == <<"a">>
StrValues == SeqsUpTo({"a", LB, RB, BS, QT}, MaxStr)
FlatMetas == {Obj(<<>>)} \cup {Obj(<<<<KeyA, Str(s)>>>>) : s \in StrValues}
Metas == FlatMetas \cup {Obj(<<<<KeyA, m>>>>) : m \in FlatMetas}
Bodies == {b \in SeqsUpTo(Chars, MaxBody) : ~StartsWithBrace(b)}
Texts == SeqsUpTo(Chars, MaxText)

NoOut ==
    [res |-> NoSplit, rejected |-> FALSE, pushed |-> FALSE, post |-> NoValue,
     mdContent |-> <<>>]

FrontInit ==
    /\ PublishInit /\ ~argv.test
    /\ postName = NoName /\ prior = NoPrior /\ initRun = NoInitRun
    /\ \/ \E t \in Texts :
             postFile = [pc |-> "read", data |-> t, from |-> "text",
                         M |-> NoValue, B |-> <<>>, out |-> NoOut]
       \/ \E m \in Metas, b \in Bodies :
             postFile = [pc |-> "read", data |-> JsonStringify(m) \o b,
                         from |-> "stringify", M |-> m, B |-> b,
                         out |-> NoOut]

\* loadPosts' forEach body runs for the file.
LoadPostFile ==
    /\ postFile.pc = "read"
    /\ postFile' = [postFile EXCEPT !.pc = "done",
                                    !.out = loadPostFile(postFile.data)]
    /\ UNCHANGED <<pubVars, postName, prior, initRun>>

FrontNext == LoadPostFile

FrontSpec == FrontInit /\ [][FrontNext]_vars

(***************************************************************************)
(* Post names (src/src/pub.js setPostDateTitleInfo, called by loadPosts    *)
(* for each post file).  A base name is a sequence of characters.          *)
(***************************************************************************)

MaxName == 3       \* characters of a post file's base name

\* The character classes of the three regular expressions (lines 483-486);
\* "pound" stands for the character U+00A3.
Whitespace == {" ", "\t"}
SpaceOrDot == Whitespace \cup {"."}
Sharp == <<"S", "h", "a", "r", "p">>

\* A class that lacks the dollar sign.
BadWebUrlCharsShort ==
    {"pound", "%", "^", "&", "(", ")", "+", "=", ",", "[", "]"}

BadWebUrlChars ==
    {"pound", "$", "%", "^", "&", "(", ")", "+", "=", ",", "[", "]"}

DotHtml == <<".", "h", "t", "m", "l">>

\* The first index (0-based) of ch in name at or after index i, or -1.
RECURSIVE IndexFrom(_, _, _)
IndexFrom(name, ch, i) ==
    IF ~(i < Len(name)) THEN -1
    ELSE IF name[i + 1] = ch THEN i
    ELSE IndexFrom(name, ch, i + 1)

\* name.indexOf(ch)
IndexOf(name, ch) == IndexFrom(name, ch, 0)

\* A replace without the g flag: the first match only.
RECURSIVE ReplaceFirst(_, _, _)
ReplaceFirst(text, class, with) ==
    IF text = <<>> THEN <<>>
    ELSE IF Head(text) \in class THEN with \o Tail(text)
    ELSE <<Head(text)>> \o ReplaceFirst(Tail(text), class, with)

\* text.replace(/[class]/g, with): every character of the class, one by one.
RECURSIVE ReplaceAll(_, _, _)
ReplaceAll(text, class, with) ==
    IF text = <<>> THEN <<>>
    ELSE (IF Head(text) \in class THEN with ELSE <<Head(text)>>)
         \o ReplaceAll(Tail(text), class, with)

\* setPostDateTitleInfo for the base name info.name: what it computes and
\* sets on the post.  No step of it throws.
setPostDateTitleInfo(name) ==
    LET div == IndexOf(name, "_")
        dateStr == Slice(name, 0, div)
        title == SliceFrom(name, div + 1)
        spacesReplaced == ReplaceAll(name, SpaceOrDot, <<"-">>)
        sharpReplaced == ReplaceAll(spacesReplaced, {"#"}, Sharp)
        badWebUrlCharsRemoved == ReplaceAll(sharpReplaced, BadWebUrlChars, <<>>)
    IN  [threw |-> FALSE, div |-> div, dateStr |-> dateStr, title |-> title,
         urlName |-> badWebUrlCharsRemoved \o DotHtml]

\* The base names followed: two different files of the posts directory.
NameChars == {"a", " ", ".", "#", "$", "_"}
Names(n) == SeqsUpTo(NameChars, n) \ {<<>>}

NameInit ==
    /\ PublishInit /\ ~argv.test
    /\ postFile = NoFile /\ prior = NoPrior /\ initRun = NoInitRun
    /\ \E a \in Names(MaxName), b \in Names(MaxName - 1) :
          /\ a # b
          /\ postName = [pc |-> "read", names |-> <<a, b>>, infos |-> <<>>]

\* loadPosts' forEach calls setPostDateTitleInfo for each file (line 460).
SetPostInfos ==
    /\ postName.pc = "read"
    /\ postName' = [postName EXCEPT
                       !.pc = "done",
                       !.infos = [k \in 1..Len(postName.names) |->
                                     setPostDateTitleInfo(postName.names[k])]]
    /\ UNCHANGED <<pubVars, postFile, prior, initRun>>

NameNext == SetPostInfos

NameSpec == NameInit /\ [][NameNext]_vars

(***************************************************************************)
(* The init script (src/unnamed/part_000): go, logAndQuit and createDirs.  *)
(* The run is followed in initRun: what config.json is on disk, the keys   *)
(* of its inputDir.dirs in Object.keys order, the directories made so far  *)
(* and whether the default config was written.                             *)
(***************************************************************************)

MaxDirs == 3       \* keys of inputDir.dirs in the config the init script reads

InputRoles == {"posts", "templates", "css", "js", "content"}

\* What t3hfs.read(CONFIG_FILE_NAME) meets: no file, a file that cannot be
\* read, a file that is not JSON, JSON without inputDir, a usable config.
ConfOnDisk == {"ENOENT", "EACCES", "badjson", "noinput", "valid"}

ConfExists(d) == d # "ENOENT"

\* Object.keys(site.inputDir.dirs): distinct keys in insertion order.
DirLists ==
    {ks \in SeqsUpTo(InputRoles, MaxDirs) :
        \A i, j \in DOMAIN ks : i # j => ks[i] # ks[j]}

\* logAndQuit: console.log(err); process.exit(1).
logAndQuit(r, err) ==
    [r EXCEPT !.pc = "done", !.running = FALSE, !.code = 1, !.err = err]

\* The script has nothing left to wait for: node ends with status 0.
InitDrained(r) == [r EXCEPT !.pc = "done", !.running = FALSE]

\* A catch that takes every read error for a missing file.
MissingAnyError(code) == TRUE

\* go's catch: err.code == 'ENOENT'.
Missing(code) == code = "ENOENT"

\* createDirs: the chain's next link starts once the one before resolved.
createDirs(r) ==
    IF ChainNext(r.dirs, Len(r.made)) = {} THEN InitDrained(r)
                                           ELSE [r EXCEPT !.pc = "mkdir"]

\* go() up to t3hfs.read(CONFIG_FILE_NAME).
InitInit ==
    /\ PublishInit
    /\ postFile = NoFile /\ postName = NoName /\ prior = NoPrior
    /\ \E d \in ConfOnDisk, dbg \in BOOLEAN, ks \in DirLists :
        /\ d # "valid" => ks = <<>>
        /\ initRun = [ pc |-> "read", disk |-> d, debug |-> dbg, dirs |-> ks,
                       made |-> <<>>, confWritten |-> FALSE,
                       running |-> TRUE, code |-> 0, err |-> "" ]

\* The read of config.json fails: go's catch.
InitReadFails ==
    /\ initRun.pc = "read"
    /\ initRun.disk \in {"ENOENT", "EACCES"}
    /\ initRun' = IF Missing(initRun.disk)
                    THEN [initRun EXCEPT !.pc = "write"]
                    ELSE logAndQuit(initRun, initRun.disk)
    /\ UNCHANGED <<pubVars, postFile, postName, prior>>

\* The read of config.json resolves: JSON.parse, then createDirs.  A throw
\* of createDirs (site.inputDir undefined) reaches go's catch without a code.
InitReadDone ==
    /\ initRun.pc = "read"
    /\ initRun.disk \notin {"ENOENT", "EACCES"}
    /\ initRun' = CASE initRun.disk = "badjson" ->
                         logAndQuit(initRun, "SyntaxError")
                    [] initRun.disk = "noinput" ->
                         IF Missing("TypeError")
                           THEN [initRun EXCEPT !.pc = "write"]
                           ELSE logAndQuit(initRun, "TypeError")
                    [] OTHER -> createDirs(initRun)
    /\ UNCHANGED <<pubVars, postFile, postName, prior>>

\* t3hfs.ensureDirCreated(fullDir) resolves: the next link of the chain.
InitMkdirDone ==
    /\ initRun.pc = "mkdir"
    /\ \E k \in ChainNext(initRun.dirs, Len(initRun.made)) :
        initRun' = createDirs([initRun EXCEPT !.made = Append(@, k)])
    /\ UNCHANGED <<pubVars, postFile, postName, prior>>

\* t3hfs.ensureDirCreated(fullDir) rejects: logAndQuit.
InitMkdirFails ==
    /\ initRun.pc = "mkdir"
    /\ initRun' = logAndQuit(initRun, "mkdir")
    /\ UNCHANGED <<pubVars, postFile, postName, prior>>

\* t3hfs.write('./', CONFIG_FILE_NAME, conf) resolves.
InitWriteDone ==
    /\ initRun.pc = "write"
    /\ initRun' = InitDrained([initRun EXCEPT !.confWritten = TRUE])
    /\ UNCHANGED <<pubVars, postFile, postName, prior>>

\* t3hfs.write('./', CONFIG_FILE_NAME, conf) rejects: logAndQuit.
InitWriteFails ==
    /\ initRun.pc = "write"
    /\ initRun' = logAndQuit(initRun, "write")
    /\ UNCHANGED <<pubVars, postFile, postName, prior>>

InitNext ==
    \/ InitReadFails
    \/ InitReadDone
    \/ InitMkdirDone
    \/ InitMkdirFails
    \/ InitWriteDone
    \/ InitWriteFails

InitSpec == InitInit /\ [][InitNext]_vars

(***************************************************************************)
(* Properties of the publish run.                                          *)
(***************************************************************************)

WriteStarted(r) ==
    IF r = "css" THEN \E i \in LessIdx : cssWrite[i] # "idle"
                 ELSE write[r] # "idle"

WriteFinished(r) ==
    IF r = "css" THEN \A i \in 1..NLess : cssWrite[i] = "ok"
                 ELSE write[r] = "ok"

DirsPrepared(t) ==
    \A i \in DOMAIN DirObject(site, t).keys :
        dir[<<t, DirObject(site, t).keys[i]>>] = "ok"

AnythingStarted ==
    \/ \E l \in Loaders : load[l] # "idle"
    \/ \E i \in LessIdx : cssRead[i] # "idle" \/ lessRender[i] # "idle"
    \/ \E r \in OutRoles : WriteStarted(r)
    \/ templates.loaded \/ posts.loaded \/ pages.rendered \/ scripts.loaded

NothingWritten == \A r \in OutRoles : written[r] = 0

\* C1: a write of an output role is under way or over only if the directory
\* it targets is that role's resolved output directory and the
\* ensureDirCreated call for it has completed successfully.
C1_WriteAfterDirCreated ==
    \A r \in OutRoles :
        WriteStarted(r) =>
            /\ wdir[r] = full["output"][r]
            /\ wdir[r] \in created
            /\ dir[<<"output", r>>] = "ok"

C1_Witness == \A r \in OutRoles : WriteStarted(r)

\* C2: 'Publish complete.' is logged only once the post-write, the
\* page-write, the CSS-write and the script-write have all finished.
C2_CompleteAfterAllWrites ==
    complete > 0 => \A r \in OutRoles : WriteFinished(r)

ReadFaults(r) ==
    IF r = "posts"
    THEN {"posts-read", "frontmatter", "markdown", "highlight",
          "templates-read", "template-compile", "apply"}
    ELSE IF r = "content"
    THEN {"posts-read", "frontmatter", "markdown", "highlight",
          "content-read", "page-render"}
    ELSE IF r = "css" THEN {"css-read", "less"}
    ELSE {"js-read"}

C5_ExitStatus ==
    (~proc.running /\ "launch" \notin faults) =>
        /\ faults # {} => proc.code # 0
        /\ proc.code = 0 =>
              complete = 1 /\ \A r \in OutRoles : WriteFinished(r)

\* C6: when the process has ended after a step of publish rejected or threw,
\* it ended in errorAndExit.
C6_EveryFailureReachesErrorAndExit ==
    (~proc.running /\ faults \ {"highlight"} # {}) => proc.how = "errorAndExit"

\* C7: at most one ensureDirCreated call is in flight, and a role's call is
\* started only after the call of every earlier role of its tree completed.
C7_DirsSequential ==
    /\ Cardinality({k \in DirKeys : dir[k] = "pending"}) <= 1
    /\ \A t \in Trees :
          LET keys == DirObject(site, t).keys IN
          \A i \in DOMAIN keys : \A j \in DOMAIN keys :
              (j < i /\ dir[<<t, keys[i]>>] # "idle") => dir[<<t, keys[j]>>] = "ok"

C7_Witness ==
    /\ dir[<<"output", "js">>] = "pending"
    /\ dir[<<"output", "content">>] = "ok"

\* C8: a directory of the output tree is created only after every directory
\* of the input tree has been created.
C8_InputTreeBeforeOutputTree ==
    (\E r \in OutRoles : dir[<<"output", r>>] # "idle") => DirsPrepared("input")

C8_Witness ==
    /\ dir[<<"output", "content">>] = "pending"
    /\ DirsPrepared("input")

\* C9: no loader, stylesheet render, template application, page render or
\* write starts before every directory of both trees has been created.
C9_NothingBeforeDirs ==
    AnythingStarted => DirsPrepared("input") /\ DirsPrepared("output")

C9_Witness ==
    /\ load["templates"] = "pending" /\ load["posts"] = "pending"
    /\ load["js"] = "pending"
    /\ \E i \in LessIdx : cssRead[i] = "pending"

C11_ApplyAfterBothLoadedWriteAfterApply ==
    /\ posts.applied # "no" =>
          /\ posts.loaded /\ templates.loaded
          /\ load["posts"] = "ok" /\ load["templates"] = "ok"
    /\ WriteStarted("posts") =>
          /\ posts.applied = "ok"
          /\ \A j \in 1..Len(posts.html) : posts.html[j] = "tpl"

C11_Witness ==
    /\ WriteFinished("posts") /\ Len(posts.html) = MaxFiles
    /\ posts.applied = "ok" /\ templates.loaded

\* C12: posts.dir is assigned before applyPostTemplates is called and before
\* renderPugPages is called, and it still has that value after either ran.
C12_PostsDirSetBeforeConsumers ==
    /\ posts.applied # "no" => posts.dirAtApply /\ posts.dir
    /\ load["content"] # "idle" => pages.postsDir /\ posts.dir

C12_Witness ==
    /\ posts.applied = "ok" /\ posts.dirAtApply
    /\ pages.rendered /\ pages.postsDir /\ posts.dir

\* C13: when applyPostTemplates runs and no loaded template is named 'post',
\* the application fails and the run ends fatally, whatever the posts are
\* (the empty collection included); no run completes without a 'post' template.
C13_MissingPostTemplateFatal ==
    (posts.applied # "no" /\ "post" \notin templates.names) =>
        /\ posts.applied = "fail" /\ "apply" \in faults
        /\ ~proc.running /\ proc.code = 1
        /\ complete = 0

(***************************************************************************)
(* Properties of the front-matter splitter.                                *)
(***************************************************************************)

\* The brace at index j (1-based) is not preceded by a backslash.
UnescapedAt(text, j, brace) ==
    text[j] = brace /\ (j = 1 \/ text[j - 1] # BS)

CountTo(text, brace, i) ==
    Cardinality({j \in 1..i : UnescapedAt(text, j, brace)})

BalancedAt(text, i) == CountTo(text, LB, i) = CountTo(text, RB, i)

Balances(text) == \E i \in 1..Len(text) : BalancedAt(text, i)

FirstBalance(text) ==
    CHOOSE i \in 1..Len(text) :
        BalancedAt(text, i) /\ \A j \in 1..(i - 1) : ~BalancedAt(text, j)

HasBrace(s) == \E j \in 1..Len(s) : s[j] \in {LB, RB}

\* No key and no string value of the JSON value holds a brace.
RECURSIVE BraceFree(_)
BraceFree(v) ==
    IF v.t = "str" THEN ~HasBrace(v.s)
    ELSE \A j \in 1..Len(v.kv) :
            ~HasBrace(v.kv[j][1]) /\ BraceFree(v.kv[j][2])

FileDone == postFile.pc = "done"

\* C14 as claimed: for every metadata object M and body B not starting with
\* a brace, the file stringify(M) + B is split into the body B and the
\* metadata M, whatever characters M's string values hold.
C14_RoundTrip ==
    (FileDone /\ postFile.from = "stringify") =>
        /\ ~postFile.out.rejected
        /\ postFile.out.mdContent = postFile.B
        /\ postFile.out.post = postFile.M

\* C14 as amended: the round trip holds for every metadata object none of
\* whose keys and string values holds a brace; backslashes and quotes in
\* the string values do not matter.
C14_RoundTripBraceFree ==
    (FileDone /\ postFile.from = "stringify" /\ BraceFree(postFile.M)) =>
        /\ ~postFile.out.rejected
        /\ postFile.out.mdContent = postFile.B
        /\ postFile.out.post = postFile.M

C14_Witness ==
    /\ FileDone /\ postFile.from = "stringify"
    /\ postFile.M = Obj(<<<<KeyA, Obj(<<<<KeyA, Str(<<BS, QT>>)>>>>)>>>>)
    /\ postFile.B = <<"a", RB>>
    /\ postFile.out.pushed /\ postFile.out.mdContent = postFile.B

\* C15: for a file starting with a brace in which the counts of unescaped
\* opening and closing braces become equal, the split is at the first index
\* where they are: front is the prefix up to and including it, the body is
\* the rest, front and body concatenated are the file, no earlier closing
\* brace ends the front matter, and what is returned is that body with the
\* parsed front.
C15_SplitAtFirstBalance ==
    (FileDone /\ StartsWithBrace(postFile.data) /\ Balances(postFile.data)) =>
        LET data == postFile.data
            e == FirstBalance(data)
            res == postFile.out.res
        IN  /\ res.scan.found /\ res.scan.end + 1 = e
            /\ res.front = SubSeq(data, 1, e)
            /\ res.data = SubSeq(data, e + 1, Len(data))
            /\ res.front \o res.data = data
            /\ \A j \in 1..(e - 1) :
                  CountTo(data, LB, j) > CountTo(data, RB, j)
            /\ ~res.threw =>
                  /\ postFile.out.mdContent = res.data
                  /\ postFile.out.post = JsonParse(SubSeq(data, 1, e)).v

C15_Witness ==
    /\ FileDone /\ StartsWithBrace(postFile.data) /\ Balances(postFile.data)
    /\ postFile.out.pushed
    /\ \E j \in 1..(FirstBalance(postFile.data) - 1) : postFile.data[j] = RB
    /\ postFile.out.mdContent # <<>>

NamesDone == postName.pc = "done"
Posted == 1..Len(postName.names)

\* urlName without its last five characters.
Stem(urlName) == SubSeq(urlName, 1, Len(urlName) - Len(DotHtml))

HasUnderscore(name) == \E j \in 1..Len(name) : name[j] = "_"

FirstUnderscore(name) ==
    CHOOSE j \in 1..Len(name) :
        name[j] = "_" /\ \A i \in 1..(j - 1) : name[i] # "_"

\* The characters one character of the base name becomes in the urlName.
UrlChars(c) ==
    IF c \in SpaceOrDot THEN <<"-">>
    ELSE IF c = "#" THEN Sharp
    ELSE IF c \in BadWebUrlChars THEN <<>>
    ELSE <<c>>

RECURSIVE PerChar(_)
PerChar(name) ==
    IF name = <<>> THEN <<>> ELSE UrlChars(Head(name)) \o PerChar(Tail(name))

\* The base name with every run of whitespace and dots made one dash.
RECURSIVE CollapseRuns(_, _)
CollapseRuns(name, inRun) ==
    IF name = <<>> THEN <<>>
    ELSE IF Head(name) \in SpaceOrDot
         THEN (IF inRun THEN <<>> ELSE <<"-">>) \o CollapseRuns(Tail(name), TRUE)
    ELSE <<Head(name)>> \o CollapseRuns(Tail(name), FALSE)

RECURSIVE Without(_, _)
Without(text, class) ==
    IF text = <<>> THEN <<>>
    ELSE (IF Head(text) \in class THEN <<>> ELSE <<Head(text)>>)
         \o Without(Tail(text), class)

RECURSIVE Sharpened(_)
Sharpened(text) ==
    IF text = <<>> THEN <<>>
    ELSE (IF Head(text) = "#" THEN Sharp ELSE <<Head(text)>>)
         \o Sharpened(Tail(text))

DateAndTitleSplit(k) ==
    LET name == postName.names[k]
        p == FirstUnderscore(name)
    IN  HasUnderscore(name) =>
           /\ postName.infos[k].dateStr = SubSeq(name, 1, p - 1)
           /\ postName.infos[k].title = SubSeq(name, p + 1, Len(name))

\* The characters a urlName is to be free of.
NotInUrl ==
    {" ", "\t", "#", "pound", "$", "%", "^", "&", "(", ")", "+", "=", ",",
     "[", "]"}

\* C17: for every base name the urlName ends in '.html' and, before that
\* suffix, holds no whitespace, no '#' and none of the removed characters.
C17_UrlNameClean ==
    NamesDone =>
        \A k \in Posted :
            LET u == postName.infos[k].urlName IN
            /\ Len(u) >= Len(DotHtml)
            /\ SubSeq(u, Len(u) - Len(DotHtml) + 1, Len(u)) = DotHtml
            /\ \A j \in 1..Len(Stem(u)) :
                  Stem(u)[j] \notin NotInUrl

C17_Witness ==
    /\ NamesDone
    /\ postName.names[1] = <<" ", "#", "$">>
    /\ Stem(postName.infos[1].urlName) = <<"-">> \o Sharp

\* C18: two posts with different base names never get the same urlName.
C18_UrlNamesUnique ==
    NamesDone =>
        (postName.names[1] # postName.names[2] =>
            postName.infos[1].urlName # postName.infos[2].urlName)

\* C19 as claimed: the urlName is the whole base name with every run of
\* whitespace or dots made a single '-', then every '#' made 'Sharp', then
\* the listed characters deleted, then '.html' appended; the date string is
\* what precedes the first underscore and the title what follows it.
C19_UrlNameRunsCollapsed ==
    NamesDone =>
        \A k \in Posted :
            /\ postName.infos[k].urlName =
                  Without(Sharpened(CollapseRuns(postName.names[k], FALSE)),
                          BadWebUrlChars) \o DotHtml
            /\ DateAndTitleSplit(k)

\* C19 as amended: every whitespace character and every dot of the base
\* name becomes its own '-' (a run of n becomes n dashes), every '#' becomes
\* 'Sharp', the listed characters are deleted and '.html' is appended; for a
\* base name with an underscore the date string is what precedes the first
\* underscore and the title what follows it.
C19_UrlNamePerCharacter ==
    NamesDone =>
        \A k \in Posted :
            /\ postName.infos[k].urlName = PerChar(postName.names[k]) \o DotHtml
            /\ DateAndTitleSplit(k)

C19_Witness ==
    /\ NamesDone
    /\ postName.names[1] = <<" ", ".", "_">>
    /\ postName.infos[1].urlName = <<"-", "-", "_">> \o DotHtml
    /\ postName.infos[1].dateStr = <<" ", ".">>
    /\ postName.infos[1].title = <<>>

\* C20 as claimed: for a base name without an underscore nothing throws,
\* the date string is empty and the title is the full base name.
C20_NoUnderscoreEmptyDate ==
    NamesDone =>
        \A k \in Posted :
            ~HasUnderscore(postName.names[k]) =>
                /\ ~postName.infos[k].threw
                /\ postName.infos[k].dateStr = <<>>
                /\ postName.infos[k].title = postName.names[k]

\* C20 as amended: for a base name without an underscore nothing throws,
\* the date string is the base name without its last character and the
\* title is the full base name.
C20_NoUnderscoreDateDropsLast ==
    NamesDone =>
        \A k \in Posted :
            LET name == postName.names[k] IN
            ~HasUnderscore(name) =>
                /\ ~postName.infos[k].threw
                /\ postName.infos[k].div = -1
                /\ postName.infos[k].dateStr = SubSeq(name, 1, Len(name) - 1)
                /\ postName.infos[k].title = name

C20_Witness ==
    /\ NamesDone
    /\ postName.names[1] = <<"a", "a", ".">>
    /\ postName.infos[1].dateStr = <<"a", "a">>
    /\ postName.infos[1].title = <<"a", "a", ".">>

(***************************************************************************)
(* Further properties of the publish run.                                  *)
(***************************************************************************)

ProductionDir == generateDefaultConfig(TRUE, 1).outputDir.dir
TestDir == generateDefaultConfig(TRUE, 1).testDir

\* The directories of the output tree whose creation was started, the
\* directories created and the directories writes were given.
OutputTargets ==
    {full["output"][k[2]] : k \in {d \in DirKeys : d[1] = "output"
                                                   /\ dir[d] # "idle"}}
        \cup {wdir[r] : r \in {q \in OutRoles : wdir[q] # NoPath}}

\* C22: with 'test', baseUrl and the output base directory are the test
\* directory from the config's load on, so every output directory resolved,
\* created or written to lies in the test directory and none in the
\* production directory; the templates get pretty and less gets no compress.
\* Without 'test', the output lies in the production directory, the
\* templates get no pretty and less gets compress.
C22_TestModeRedirectsOutput ==
    /\ argv.test =>
          /\ (cfgRead = "ok" /\ "config-parse" \notin faults) =>
                /\ site.outputDir.dir = TestDir
                /\ site.baseUrl = "file:///" \o TestDir
          /\ \A p \in OutputTargets : p[1] = TestDir
          /\ \A p \in created : p[1] # ProductionDir
          /\ options.post \subseteq {TRUE} /\ options.page \subseteq {TRUE}
          /\ options.less \subseteq {FALSE}
    /\ ~argv.test =>
          /\ \A p \in OutputTargets : p[1] = ProductionDir
          /\ options.post \subseteq {FALSE} /\ options.page \subseteq {FALSE}
          /\ options.less \subseteq {TRUE}

C22_Witness ==
    /\ argv.test
    /\ \A r \in OutRoles : WriteFinished(r) /\ written[r] > 0
    /\ \A r \in OutRoles : wdir[r][1] = TestDir
    /\ options = [post |-> {TRUE}, page |-> {TRUE}, less |-> {FALSE}]

\* C24: when pug.render throws for a page, no page file is written, the
\* page-write is never started and the run ends through errorAndExit.
C24_PageRenderFailureWritesNoPage ==
    "page-render" \in faults =>
        /\ written["content"] = 0 /\ ~WriteStarted("content")
        /\ ~pages.rendered
        /\ ~proc.running /\ proc.how = "errorAndExit" /\ proc.code = 1

C24_Witness ==
    /\ "page-render" \in faults /\ proc.err = "page-render"
    /\ written["posts"] > 0 /\ written["content"] = 0

\* C25: when an ensureDirCreated call fails the run has ended through
\* errorAndExit: no directory creation is pending, the directories after the
\* failed one in its tree and, if it was in the input tree, those of the
\* output tree were never started, and no loader, render or write started.
C25_MkdirFailureEndsRun ==
    "mkdir" \in faults =>
        /\ ~proc.running /\ proc.how = "errorAndExit" /\ proc.code = 1
        /\ \A k \in DirKeys : dir[k] # "pending"
        /\ \A t \in Trees :
              LET keys == DirObject(site, t).keys IN
              \A i \in DOMAIN keys : \A j \in DOMAIN keys :
                  (j < i /\ dir[<<t, keys[j]>>] = "fail") =>
                      /\ dir[<<t, keys[i]>>] = "idle"
                      /\ full[t][keys[i]] \notin created
        /\ (\E k \in DirKeys : k[1] = "input" /\ dir[k] = "fail") =>
              \A k \in DirKeys : k[1] = "output" => dir[k] = "idle"
        /\ ~AnythingStarted /\ NothingWritten /\ ~wired

C25_Witness ==
    /\ "mkdir" \in faults
    /\ dir[<<"output", "js">>] = "fail"
    /\ dir[<<"output", "content">>] = "ok"
    /\ dir[<<"output", "css">>] = "idle"

\* C26: a post file is written, or the post-write started, only if no
\* template failed to compile and the 'post' template was applied to every
\* post; when the application fails at one post no post is written, though
\* the posts before it already carry the template's html.
C26_PostsWrittenOnlyAfterWholeBatch ==
    /\ (WriteStarted("posts") \/ written["posts"] > 0) =>
          /\ "template-compile" \notin faults /\ templates.loaded
          /\ "apply" \notin faults /\ posts.applied = "ok"
          /\ \A j \in 1..Len(posts.html) : posts.html[j] = "tpl"
    /\ ("apply" \in faults \/ posts.applied = "fail") =>
          /\ written["posts"] = 0 /\ ~WriteStarted("posts")
          /\ ~proc.running /\ proc.how = "errorAndExit"

C26_Witness ==
    /\ posts.applied = "fail" /\ "post" \in templates.names
    /\ Len(posts.html) = MaxFiles
    /\ posts.html[1] = "tpl" /\ posts.html[MaxFiles] = "md"
    /\ written["posts"] = 0

\* C27: 'Publish complete.' and errorAndExit exclude each other in a run.
C27_CompleteExcludesFailure ==
    ~(complete > 0 /\ proc.how = "errorAndExit")

AllWritesFinished == \A r \in OutRoles : WriteFinished(r)

\* The failures that are not a collaborator call's: config.json is not JSON,
\* the config lacks lessFilesToOutput, a post's front matter does not parse,
\* no template is named 'post'.
InputFaults ==
    {"config-parse", "launch", "frontmatter"}
        \cup (IF "post" \notin templates.names THEN {"apply"} ELSE {})

IsPrefixOf(a, b) == Len(a) <= Len(b) /\ \A i \in DOMAIN a : a[i] = b[i]

InitStarted == initRun.pc # "none"

\* C29: the init script writes the default config only after the read of
\* config.json failed with ENOENT, and then makes no directory; with a config
\* that exists and parses it makes the directories of inputDir.dirs one after
\* another in key order, all of them if it ends with status 0, and writes no
\* config; every other read or parse error, and a config without inputDir,
\* ends the process with status 1 with nothing written and no directory made.
C29_InitNeverOverwritesConfig ==
    InitStarted =>
        /\ (initRun.confWritten \/ initRun.pc = "write") =>
               ~ConfExists(initRun.disk) /\ initRun.made = <<>>
        /\ initRun.made # <<>> =>
               initRun.disk = "valid" /\ IsPrefixOf(initRun.made, initRun.dirs)
        /\ (initRun.disk = "valid" /\ ~initRun.running /\ initRun.code = 0) =>
               initRun.made = initRun.dirs
        /\ (initRun.disk \notin {"ENOENT", "valid"} /\ initRun.pc # "read") =>
               /\ ~initRun.running /\ initRun.code = 1
               /\ ~initRun.confWritten /\ initRun.made = <<>>

\* C29 witness: a config that exists and parses, the three directories of
\* its inputDir.dirs made in key order, status 0 and no config written.
C29_Witness ==
    /\ InitStarted /\ ~initRun.running /\ initRun.code = 0
    /\ initRun.disk = "valid" /\ Len(initRun.dirs) = MaxDirs
    /\ initRun.made = initRun.dirs /\ ~initRun.confWritten

(***************************************************************************)
(* Properties of two runs.                                                 *)
(***************************************************************************)

SecondRunOver == prior.ran /\ ~proc.running /\ proc.how = "drained"

\* C21: a second run of publish on the same unchanged inputs, whatever the
\* order in which its collaborators complete, has written the same files with
\* the same contents as the first once it is over.
C21_SecondRunWritesTheSame ==
    SecondRunOver => Outputs = prior.outputs

\* C28: when renderPugPages renders the pages in the second run, the html of
\* the posts it is given is in the stage it was in when the first run
\* rendered the same pages.
C28_PagesSeeOneHtmlStage ==
    (prior.ran /\ pages.rendered) => pages.saw = prior.outputs.pages
====
